---- MODULE Spec2Model ----
(***************************************************************************)
(* ChunkManager of p2p-media-loader (src/lib/chunk-manager.ts): the        *)
(* playlist registry, the single chunk-session slot, and the event         *)
(* dispatch between the loader (transport) and the caller's callbacks.     *)
(*                                                                         *)
(* Strings are sequences of one-character strings, so that endsWith,       *)
(* lastIndexOf, substring and + are computed as the code computes them.    *)
(* A playlist text is a sequence of lines <<prefix, value>>.               *)
(***************************************************************************)
EXTENDS Integers, Sequences, FiniteSets, TLC

VARIABLES
    playlists,   \* this.playlists: the Map, as its entries in insertion order
    chunk,       \* this.chunk: NullChunk or a Chunk
    fetches,     \* loadHlsPlaylist calls suspended at `await Utils.fetchContent`
    inflight,    \* file events the loader still owes: <<load call, file url>>
    hist,        \* history: per loadChunk call, what it did and what was called back
    last,        \* what the operation that produced this state returned (see Returned)
    prevHls,     \* history: the loadHlsPlaylist settlement directly before the last one
    userCalls    \* history: the number of calls the user has made

vars == <<playlists, chunk, fetches, inflight, hist, last, prevHls, userCalls>>

------------------------------------------------------------------------------
(* Bounds of the model *)

\* calls the user makes in one behaviour (processHlsPlaylist, loadHlsPlaylist,
\* loadChunk, abortChunk); what the fetches and the loader answer is not counted
MaxCalls == 3
\* loadChunk calls in one behaviour, those made inside a callback included
MaxLoads == 2

------------------------------------------------------------------------------
(* String primitives of the language, on sequences of characters *)

\* String.prototype.endsWith
EndsWith(s, t) ==
    /\ Len(t) <= Len(s)
    /\ SubSeq(s, Len(s) - Len(t) + 1, Len(s)) = t

\* String.prototype.lastIndexOf (0-based, -1 when absent)
LastIndexOf(s, c) ==
    LET at == {i \in 1..Len(s) : s[i] = c}
    IN  IF at = {} THEN -1 ELSE (CHOOSE i \in at : \A j \in at : j <= i) - 1

\* String.prototype.substring(from, to), 0-based, to exclusive
Substring(s, from, to) == SubSeq(s, from + 1, to)

\* JavaScript truthiness of a number and of a string
TruthyNum(x) == x # 0
TruthyStr(x) == x # ""

------------------------------------------------------------------------------
(* The inputs the environment draws from *)

HP  == <<"h", "/", "p">>
GDP == <<"g", "/", "d", "/", "p">>
NoSlash == <<"p">>

\* URLs handed to processHlsPlaylist and loadHlsPlaylist
AllPlaylistUrls == {HP, GDP, NoSlash}
PlaylistUrls == {HP, GDP}

A  == <<"a">>
B  == <<"b">>
BA == <<"b", "a">>

Seg(d, u) == << <<"#EXTINF:", d>>, <<"", u>> >>
TextHead == << <<"#EXTM3U", "">>, <<"#EXT-X-VERSION:4", "">> >>

\* a live playlist of three segments
TextLive3 ==
    TextHead \o << <<"#EXT-X-TARGETDURATION:", 9>> >>
         \o Seg(4, A) \o Seg(5, B) \o Seg(6, BA)
\* a live playlist of two segments, the second's URI ending with the first's
TextLive2 ==
    TextHead \o << <<"#EXT-X-TARGETDURATION:", 9>>, <<"#EXT-X-MEDIA-SEQUENCE:", 7>> >>
         \o Seg(4, A) \o Seg(6, BA)
\* a live playlist of one segment
TextLive1 ==
    TextHead \o << <<"#EXT-X-PLAYLIST-TYPE:", "EVENT">>, <<"#EXT-X-MEDIA-SEQUENCE:", 0>>,
               <<"#EXT-X-DISCONTINUITY-SEQUENCE:", 2>> >>
         \o Seg(4, A)
\* a live playlist with no segment yet
TextLive0 == TextHead \o << <<"#EXT-X-TARGETDURATION:", 9>> >>
\* an on-demand playlist (end-list marker) of two segments
TextVod2 ==
    TextHead \o << <<"#EXT-X-PLAYLIST-TYPE:", "VOD">> >>
         \o Seg(5, B) \o Seg(4, A) \o << <<"#EXT-X-ENDLIST", "">> >>
\* a text the parser rejects
TextBad == << <<"<html>", "">> >>

AllTexts == {TextLive3, TextLive1, TextLive0, TextVod2, TextBad}

\* the playlist texts of up to MaxSegments segments, each header tag and the
\* end-list marker present or not
MaxSegments == 3
SegmentTexts == {Seg(4, A), Seg(6, BA), Seg(5, B)}
RECURSIVE SegmentsTexts(_)
SegmentsTexts(n) ==
    IF n = 0 THEN {<<>>}
    ELSE SegmentsTexts(n - 1)
         \cup {t \o sg : t \in SegmentsTexts(n - 1), sg \in SegmentTexts}
Optional(line) == {<<>>, <<line>>}
GenTexts ==
    {TextHead \o type \o td \o ms \o ds \o segs \o el :
        type \in Optional(<<"#EXT-X-PLAYLIST-TYPE:", "EVENT">>),
        td \in Optional(<<"#EXT-X-TARGETDURATION:", 9>>),
        ms \in Optional(<<"#EXT-X-MEDIA-SEQUENCE:", 7>>),
        ds \in Optional(<<"#EXT-X-DISCONTINUITY-SEQUENCE:", 2>>),
        segs \in SegmentsTexts(MaxSegments),
        el \in Optional(<<"#EXT-X-ENDLIST", "">>)}

Texts == {TextLive2, TextVod2, TextLive0, TextBad}

\* URLs handed to loadChunk and abortChunk
ChunkUrls == { <<"h", "/", "a">>, <<"h", "/", "b">>, <<"h", "/", "b", "a">> }

\* the limits handed to getLimitedContent, the urls handed to getChunkIndex
Limits == 0..MaxSegments
LocateUrls == ChunkUrls \cup {<<"h", "/", "c">>}

\* the callbacks a caller passes, TRUE for a function: callers pass both
Callbacks == {<<TRUE, TRUE>>}

\* what a file-loaded event carries, and what a file-error event carries
Datas == {"d1"}
Errors == {"e1"}
FetchErrors == {"fetch failed"}

------------------------------------------------------------------------------
(* m3u8-parser: text to manifest *)

EmptyManifest ==
    [segments |-> <<>>, endList |-> FALSE, playlistType |-> "",
     targetDuration |-> 0, mediaSequence |-> 0, discontinuitySequence |-> 0]

KnownPrefixes ==
    {"#EXTM3U", "#EXT-X-VERSION:4", "#EXT-X-TARGETDURATION:", "#EXT-X-MEDIA-SEQUENCE:",
     "#EXT-X-DISCONTINUITY-SEQUENCE:", "#EXT-X-PLAYLIST-TYPE:", "#EXTINF:",
     "#EXT-X-ENDLIST", ""}

\* the parser throws on a line it does not know
ParseThrows(text) == \E i \in 1..Len(text) : text[i][1] \notin KnownPrefixes

\* one line pushed into the parser: acc is [m: manifest so far, dur: pending EXTINF]
ParseLine(acc, line) ==
    LET m == acc.m
        p == line[1]
        v == line[2]
    IN  CASE p = "#EXTINF:" -> [acc EXCEPT !.dur = v]
          [] p = "" ->
                [m |-> [m EXCEPT !.segments = Append(@, [uri |-> v, duration |-> acc.dur])],
                 dur |-> 0]
          [] p = "#EXT-X-ENDLIST" -> [acc EXCEPT !.m.endList = TRUE]
          [] p = "#EXT-X-PLAYLIST-TYPE:" -> [acc EXCEPT !.m.playlistType = v]
          [] p = "#EXT-X-TARGETDURATION:" -> [acc EXCEPT !.m.targetDuration = v]
          [] p = "#EXT-X-MEDIA-SEQUENCE:" -> [acc EXCEPT !.m.mediaSequence = v]
          [] p = "#EXT-X-DISCONTINUITY-SEQUENCE:" ->
                [acc EXCEPT !.m.discontinuitySequence = v]
          [] OTHER -> acc

RECURSIVE ParseFrom(_, _, _)
ParseFrom(text, i, acc) ==
    IF i > Len(text) THEN acc.m ELSE ParseFrom(text, i + 1, ParseLine(acc, text[i]))

\* parser.push(content); parser.end(); parser.manifest
Parse(text) == ParseFrom(text, 1, [m |-> EmptyManifest, dur |-> 0])

------------------------------------------------------------------------------
(* class Playlist *)

\* the constructor throws when the url has no "/"
PlaylistThrows(url) == LastIndexOf(url, "/") = -1

\* mutant of Playlist: baseUrl stops before the last "/"
Playlist_BaseBeforeSlash(url, manifest) ==
    [url |-> url,
     baseUrl |-> Substring(url, 0, LastIndexOf(url, "/")),
     manifest |-> manifest]

\* new Playlist(url, manifest), for a url the constructor accepts
Playlist(url, manifest) ==
    [url |-> url,
     baseUrl |-> Substring(url, 0, LastIndexOf(url, "/") + 1),
     manifest |-> manifest]

RECURSIVE getChunkIndexFrom(_, _, _)
getChunkIndexFrom(playlist, url, i) ==
    IF i >= Len(playlist.manifest.segments) THEN -1
    ELSE IF EndsWith(url, playlist.manifest.segments[i + 1].uri) THEN i
    ELSE getChunkIndexFrom(playlist, url, i + 1)

\* mutant of getChunkIndex: the last segment whose uri ends url
getChunkIndex_LastMatch(playlist, url) ==
    LET found == {i \in 0..(Len(playlist.manifest.segments) - 1) :
                     EndsWith(url, playlist.manifest.segments[i + 1].uri)}
    IN  IF found = {} THEN -1 ELSE CHOOSE i \in found : \A j \in found : j <= i

\* Playlist.getChunkIndex: 0-based index of the first segment whose uri ends url
getChunkIndex(playlist, url) == getChunkIndexFrom(playlist, url, 0)

\* mutant of limitedContentAvail: the end-list marker is not looked at
limitedContentAvail_IgnoresEndList(playlist) == Len(playlist.manifest.segments) > 0

\* Playlist.limitedContentAvail
limitedContentAvail(playlist) ==
    /\ ~playlist.manifest.endList
    /\ Len(playlist.manifest.segments) > 0

\* `if (m.field) { content += prefix + m.field + "\n"; }`
HeaderLine(prefix, field, truthy) == IF truthy THEN << <<prefix, field>> >> ELSE <<>>

RECURSIVE SegmentLines(_, _, _)
SegmentLines(segments, i, n) ==
    IF i >= n THEN <<>>
    ELSE << <<"#EXTINF:", segments[i + 1].duration>>, <<"", segments[i + 1].uri>> >>
         \o SegmentLines(segments, i + 1, n)

\* mutant of getLimitedContent: the first limit segments are left out
getLimitedContent_DropsFirst(playlist, limit) ==
    LET m == playlist.manifest
    IN  << <<"#EXTM3U", "">>, <<"#EXT-X-VERSION:3", "">> >>
        \o HeaderLine("#EXT-X-PLAYLIST-TYPE:", m.playlistType, TruthyStr(m.playlistType))
        \o HeaderLine("#EXT-X-TARGETDURATION:", m.targetDuration, TruthyNum(m.targetDuration))
        \o HeaderLine("#EXT-X-MEDIA-SEQUENCE:", m.mediaSequence, TruthyNum(m.mediaSequence))
        \o HeaderLine("#EXT-X-DISCONTINUITY-SEQUENCE:", m.discontinuitySequence,
                       TruthyNum(m.discontinuitySequence))
        \o SegmentLines(m.segments, limit, Len(m.segments))

\* Playlist.getLimitedContent, for a playlist with limitedContentAvail
getLimitedContent(playlist, limit) ==
    LET m == playlist.manifest
    IN  << <<"#EXTM3U", "">>, <<"#EXT-X-VERSION:3", "">> >>
        \o HeaderLine("#EXT-X-PLAYLIST-TYPE:", m.playlistType, TruthyStr(m.playlistType))
        \o HeaderLine("#EXT-X-TARGETDURATION:", m.targetDuration, TruthyNum(m.targetDuration))
        \o HeaderLine("#EXT-X-MEDIA-SEQUENCE:", m.mediaSequence, TruthyNum(m.mediaSequence))
        \o HeaderLine("#EXT-X-DISCONTINUITY-SEQUENCE:", m.discontinuitySequence,
                       TruthyNum(m.discontinuitySequence))
        \o SegmentLines(m.segments, 0, Len(m.segments) - limit)

\* getLimitedContent throws on a playlist without limited content
getLimitedContentThrows(playlist) == ~limitedContentAvail(playlist)

------------------------------------------------------------------------------
(* this.playlists: a Map, iterated in insertion order *)

MapHas(m, key) == \E i \in 1..Len(m) : m[i].key = key

MapGet(m, key) == m[CHOOSE i \in 1..Len(m) : m[i].key = key].value

\* Map.prototype.set: an existing key keeps its place, a new key goes last
MapSet(m, key, value) ==
    IF MapHas(m, key)
    THEN [i \in 1..Len(m) |-> IF m[i].key = key THEN [key |-> key, value |-> value] ELSE m[i]]
    ELSE Append(m, [key |-> key, value |-> value])

\* Map.prototype.delete
MapDelete(m, key) == SelectSeq(m, LAMBDA e : e.key # key)

\* Array.from(map.values())
MapValues(m) == [i \in 1..Len(m) |-> m[i].value]

------------------------------------------------------------------------------
(* ChunkManager: the playlist registry *)

\* the error processHlsPlaylist throws, "" when it returns
processHlsPlaylistError(url, content) ==
    IF ParseThrows(content) THEN "parse error"
    ELSE IF PlaylistThrows(url) THEN "Unexpected playlist URL format"
    ELSE ""

\* mutant of processHlsPlaylistSet: an entry already stored is kept
processHlsPlaylistSet_KeepsFirst(m, url, content) ==
    IF MapHas(m, url) THEN m ELSE MapSet(m, url, Playlist(url, Parse(content)))

\* this.playlists after a processHlsPlaylist that returns
processHlsPlaylistSet(m, url, content) == MapSet(m, url, Playlist(url, Parse(content)))

\* mutant of loadHlsPlaylistResult: the limit is rounded up
loadHlsPlaylistResult_RoundsUp(playlist, content) ==
    IF limitedContentAvail(playlist)
    THEN getLimitedContent(playlist, (Len(playlist.manifest.segments) + 1) \div 2)
    ELSE content

\* what loadHlsPlaylist returns once processHlsPlaylist has returned playlist
loadHlsPlaylistResult(playlist, content) ==
    IF limitedContentAvail(playlist)
    THEN getLimitedContent(playlist, Len(playlist.manifest.segments) \div 2)
    ELSE content

\* the error thrown inside the try block after the fetch resolved, "" when none
loadHlsPlaylistError(url, content) ==
    IF processHlsPlaylistError(url, content) # "" THEN processHlsPlaylistError(url, content)
    ELSE LET playlist == Playlist(url, Parse(content))
         IN  IF limitedContentAvail(playlist) /\ getLimitedContentThrows(playlist)
             THEN "Limited content allowed only for Live playlist with segments"
             ELSE ""

\* mutant of loadHlsPlaylistCatch: nothing is deleted
loadHlsPlaylistCatch_KeepsEntry(m, url) == m

\* the catch block: this.playlists.delete(url)
loadHlsPlaylistCatch(m, url) == MapDelete(m, url)

------------------------------------------------------------------------------
(* ChunkManager: chunk location and the file list *)

NullPlaylist == [url |-> <<>>, baseUrl |-> <<>>, manifest |-> EmptyManifest]

RECURSIVE getChunkLocationFrom(_, _, _)
getChunkLocationFrom(values, url, k) ==
    IF k > Len(values) THEN [playlist |-> NullPlaylist, chunkIndex |-> -1]
    ELSE IF getChunkIndex(values[k], url) >= 0
         THEN [playlist |-> values[k], chunkIndex |-> getChunkIndex(values[k], url)]
         ELSE getChunkLocationFrom(values, url, k + 1)

\* ChunkManager.getChunkLocation
getChunkLocation(m, url) == getChunkLocationFrom(MapValues(m), url, 1)

\* mutant of loadChunkFiles: the loop starts one past the segment found
loadChunkFiles_SkipsFound(m, url) ==
    LET loc == getChunkLocation(m, url)
        segments == loc.playlist.manifest.segments
    IN  IF loc.playlist # NullPlaylist
        THEN [k \in 1..(Len(segments) - loc.chunkIndex - 1) |->
                 loc.playlist.baseUrl \o segments[loc.chunkIndex + 1 + k].uri]
        ELSE <<url>>

\* the files loadChunk collects (their urls)
loadChunkFiles(m, url) ==
    LET loc == getChunkLocation(m, url)
        segments == loc.playlist.manifest.segments
    IN  IF loc.playlist # NullPlaylist
        THEN [k \in 1..(Len(segments) - loc.chunkIndex) |->
                 loc.playlist.baseUrl \o segments[loc.chunkIndex + k].uri]
        ELSE <<url>>

\* mutant of loadChunkKey: the key is always the url asked for
loadChunkKey_AlwaysUrl(m, url) == url

\* the second argument of loader.load
loadChunkKey(m, url) ==
    LET loc == getChunkLocation(m, url)
    IN  IF loc.playlist # NullPlaylist THEN loc.playlist.url ELSE url

------------------------------------------------------------------------------
(* class Chunk and the session slot *)

NullChunk == [id |-> 0, url |-> <<>>, onSuccess |-> FALSE, onError |-> FALSE]

\* new Chunk(url, onSuccess, onError); id is the object's identity (the number of
\* the loadChunk call that made it), a callback is TRUE when the caller gave one
Chunk(id, url, onSuccess, onError) ==
    [id |-> id, url |-> url, onSuccess |-> onSuccess, onError |-> onError]

\* `this.chunk && this.chunk.url === url`
chunkMatches(c, url) == c # NullChunk /\ c.url = url

\* mutant of abortChunkSlot: any pending session is aborted
abortChunkSlot_AnyUrl(c, url) == NullChunk

\* this.chunk after abortChunk(url)
abortChunkSlot(c, url) == IF chunkMatches(c, url) THEN NullChunk ELSE c

\* the callback invocations onFileLoaded makes
onFileLoadedCalls(c, url, data) ==
    IF chunkMatches(c, url) /\ c.onSuccess
    THEN << [fn |-> "onSuccess", id |-> c.id, arg |-> data] >>
    ELSE <<>>

\* the callback invocations onFileError makes
onFileErrorCalls(c, url, error) ==
    IF chunkMatches(c, url) /\ c.onError
    THEN << [fn |-> "onError", id |-> c.id, arg |-> error] >>
    ELSE <<>>

\* mutant of handlerSlot: the handler does not clear the slot
handlerSlot_NotCleared(c, now, url) == now

\* this.chunk when an event handler returns; c is the slot when the handler was
\* entered, now the slot once the callback (if any) has returned
handlerSlot(c, now, url) == IF chunkMatches(c, url) THEN NullChunk ELSE now

\* mutant of loadChunkSlot: a pending session is not replaced
loadChunkSlot_KeepsPending(c, id, files, onSuccess, onError) ==
    IF c # NullChunk THEN c ELSE Chunk(id, files[1], onSuccess, onError)

\* this.chunk after `this.chunk = new Chunk(files[0].url, onSuccess, onError)`
loadChunkSlot(c, id, files, onSuccess, onError) == Chunk(id, files[1], onSuccess, onError)

\* the loader takes a load call: it owes one event per file
LoaderLoad(owed, id, files) == owed \cup {<<id, files[k]>> : k \in 1..Len(files)}

------------------------------------------------------------------------------
(* The history kept of each loadChunk call *)

\* url: the url asked for; threw: the call threw; slot: this.chunk when the call
\* returned; loads: the calls of loader.load it made; cbs: the callbacks invoked
\* on its Chunk so far, each with the load call whose event invoked it;
\* aborted: abortChunk(url) was the very next operation; seen: an event for
\* slot.url was delivered since the call; quietNext: the next loadChunk call came
\* before any event for slot.url; nested: the call was made inside a callback;
\* dropped: how its Chunk was taken out of the slot uncalled, "aborted" by an
\* abortChunk that matched it, "superseded" by a loadChunk that replaced it
Session(url, threw, slot, loads, nested) ==
    [url |-> url, threw |-> threw, slot |-> slot, loads |-> loads, cbs |-> <<>>,
     aborted |-> FALSE, seen |-> FALSE, quietNext |-> FALSE, nested |-> nested,
     dropped |-> ""]

\* a callback that returns without calling back into the manager
NoReact == [url |-> <<>>, onSuccess |-> FALSE, onError |-> FALSE]

\* what a callback may do before it returns: nothing, or call loadChunk
Reacts == {NoReact} \cup [url : ChunkUrls, onSuccess : {TRUE}, onError : {TRUE}]

------------------------------------------------------------------------------
(* ChunkManager.loadChunk as a step on st = [chunk, inflight, hist] *)

loadChunkStep(st, m, url, onSuccess, onError, nested) ==
    LET files == loadChunkFiles(m, url)
        key == loadChunkKey(m, url)
        id == Len(st.hist) + 1
        \* files[0].url of an empty list throws a TypeError
        threw == files = <<>>
        slot == IF threw THEN st.chunk
                ELSE loadChunkSlot(st.chunk, id, files, onSuccess, onError)
        loads == IF threw THEN <<>> ELSE << [files |-> files, key |-> key] >>
        quiet == [k \in 1..Len(st.hist) |->
                     IF k = Len(st.hist)
                     THEN [st.hist[k] EXCEPT !.quietNext = ~st.hist[k].seen]
                     ELSE st.hist[k]]
        marked == [k \in 1..Len(st.hist) |->
                     IF ~threw /\ st.chunk # NullChunk /\ st.chunk.id = k
                        /\ quiet[k].cbs = <<>>
                     THEN [quiet[k] EXCEPT !.dropped = "superseded"]
                     ELSE quiet[k]]
    IN  [chunk |-> slot,
         inflight |-> IF threw THEN st.inflight ELSE LoaderLoad(st.inflight, id, files),
         hist |-> Append(marked, Session(url, threw, slot, loads, nested))]

\* hist with the invocations calls, made on the event of load call by, noted
Logged(h, calls, by) ==
    [k \in 1..Len(h) |->
        IF calls # <<>> /\ calls[1].id = k
        THEN [h[k] EXCEPT !.cbs = Append(@, [fn |-> calls[1].fn, arg |-> calls[1].arg,
                                             by |-> by])]
        ELSE h[k]]

\* hist with an event for url noted
Seen(h, url) ==
    [k \in 1..Len(h) |->
        IF ~h[k].threw /\ h[k].slot.url = url THEN [h[k] EXCEPT !.seen = TRUE] ELSE h[k]]

\* an event handler as a step: the callbacks it invokes are calls, the callback
\* does react before it returns, and then the handler clears the slot
handlerStep(e, calls, react) ==
    LET delivered == [chunk |-> chunk, inflight |-> inflight \ {e},
                      hist |-> Logged(Seen(hist, e[2]), calls, e[1])]
        inside == IF react = NoReact
                  THEN delivered
                  ELSE loadChunkStep(delivered, playlists, react.url,
                                     react.onSuccess, react.onError, TRUE)
    IN  [inside EXCEPT !.chunk = handlerSlot(chunk, inside.chunk, e[2])]

------------------------------------------------------------------------------
(* The state machine *)

NoFetches == [u \in AllPlaylistUrls |-> 0]

\* one more call of the user
Called == userCalls < MaxCalls /\ userCalls' = userCalls + 1

\* `last` after an operation whose return value no property reads
NoOp == [op |-> "other"]

\* `last` after a loadChunk, made by the user or (nested) inside a callback of
\* the handler that has just returned: the number of the call
Loaded(id, nested) == [op |-> "loadChunk", id |-> id, nested |-> nested]

\* `last` after processHlsPlaylist: error is what it threw, "" when it returned
Processed(url, content, error) ==
    [op |-> "processHlsPlaylist", url |-> url, content |-> content, error |-> error]

\* `last` after the promise of a loadHlsPlaylist(url) settled: error is what it
\* rejected with ("" when it resolved), result what it resolved with, content the
\* text fetched, others the calls still suspended
Settled(url, content, error, result, others) ==
    [op |-> "settled", url |-> url, content |-> content, error |-> error,
     result |-> result, others |-> others]

Init ==
    /\ playlists = <<>>
    /\ chunk = NullChunk
    /\ fetches = NoFetches
    /\ inflight = {}
    /\ hist = <<>>
    /\ last = NoOp
    /\ prevHls = NoOp
    /\ userCalls = 0

\* mutant of processHlsPlaylist: registering a playlist empties the session slot
processHlsPlaylist_DropsSession(url, content) ==
    LET error == processHlsPlaylistError(url, content)
    IN  /\ Called
        /\ playlists' = IF error = "" THEN processHlsPlaylistSet(playlists, url, content)
                        ELSE playlists
        /\ last' = Processed(url, content, error)
        /\ prevHls' = NoOp
        /\ chunk' = NullChunk
        /\ UNCHANGED <<fetches, inflight, hist>>

\* processHlsPlaylist(url, content), called by the user
processHlsPlaylist(url, content) ==
    LET error == processHlsPlaylistError(url, content)
    IN  /\ Called
        /\ playlists' = IF error = "" THEN processHlsPlaylistSet(playlists, url, content)
                        ELSE playlists
        /\ last' = Processed(url, content, error)
        /\ prevHls' = NoOp
        /\ UNCHANGED <<chunk, fetches, inflight, hist>>

\* loadHlsPlaylist(url) up to its await
loadHlsPlaylist(url) ==
    /\ Called
    /\ fetches' = [fetches EXCEPT ![url] = @ + 1]
    /\ last' = NoOp
    /\ prevHls' = NoOp
    /\ UNCHANGED <<playlists, chunk, inflight, hist>>

\* Utils.fetchContent(url) resolves with content: loadHlsPlaylist runs to its end
fetchResolved(url, content) ==
    LET error == loadHlsPlaylistError(url, content)
        stored == IF processHlsPlaylistError(url, content) = ""
                  THEN processHlsPlaylistSet(playlists, url, content)
                  ELSE playlists
    IN  /\ fetches[url] > 0
        /\ fetches' = [fetches EXCEPT ![url] = @ - 1]
        /\ playlists' = IF error = "" THEN stored ELSE loadHlsPlaylistCatch(stored, url)
        /\ last' = Settled(url, content, error,
                           IF error = ""
                           THEN loadHlsPlaylistResult(Playlist(url, Parse(content)), content)
                           ELSE <<>>,
                           fetches')
        /\ prevHls' = IF last.op = "settled" THEN last ELSE NoOp
        /\ UNCHANGED <<chunk, inflight, hist, userCalls>>

\* Utils.fetchContent(url) rejects with error: the catch block runs
fetchRejected(url, error) ==
    /\ fetches[url] > 0
    /\ fetches' = [fetches EXCEPT ![url] = @ - 1]
    /\ playlists' = loadHlsPlaylistCatch(playlists, url)
    /\ last' = Settled(url, <<>>, error, <<>>, fetches')
    /\ prevHls' = IF last.op = "settled" THEN last ELSE NoOp
    /\ UNCHANGED <<chunk, inflight, hist, userCalls>>

\* loadChunk(url, onSuccess, onError), called by the user
loadChunk(url, onSuccess, onError) ==
    LET st == loadChunkStep([chunk |-> chunk, inflight |-> inflight, hist |-> hist],
                            playlists, url, onSuccess, onError, FALSE)
    IN  /\ Called
        /\ Len(hist) < MaxLoads
        /\ chunk' = st.chunk
        /\ inflight' = st.inflight
        /\ hist' = st.hist
        /\ last' = Loaded(Len(hist) + 1, FALSE)
        /\ prevHls' = NoOp
        /\ UNCHANGED <<playlists, fetches>>

\* abortChunk(url), called by the user
abortChunk(url) ==
    /\ Called
    /\ chunk' = abortChunkSlot(chunk, url)
    /\ hist' = [k \in 1..Len(hist) |->
                   [hist[k] EXCEPT
                       !.aborted = @ \/ ( /\ last.op = "loadChunk" /\ ~last.nested
                                          /\ last.id = k /\ hist[k].url = url ),
                       !.dropped = IF chunkMatches(chunk, url) /\ chunk.id = k
                                   THEN "aborted" ELSE @]]
    /\ last' = NoOp
    /\ prevHls' = NoOp
    /\ UNCHANGED <<playlists, fetches, inflight>>

\* the loader emits FileLoaded for a file it owes; the callback does react
onFileLoaded(e, data, react) ==
    LET calls == onFileLoadedCalls(chunk, e[2], data)
        st == handlerStep(e, calls, react)
    IN  /\ e \in inflight
        /\ react # NoReact => calls # <<>> /\ Len(hist) < MaxLoads
        /\ chunk' = st.chunk
        /\ inflight' = st.inflight
        /\ hist' = st.hist
        /\ last' = IF react = NoReact THEN NoOp ELSE Loaded(Len(hist) + 1, TRUE)
        /\ prevHls' = NoOp
        /\ UNCHANGED <<playlists, fetches, userCalls>>

\* the loader emits FileError for a file it owes; the callback does react
onFileError(e, error, react) ==
    LET calls == onFileErrorCalls(chunk, e[2], error)
        st == handlerStep(e, calls, react)
    IN  /\ e \in inflight
        /\ react # NoReact => calls # <<>> /\ Len(hist) < MaxLoads
        /\ chunk' = st.chunk
        /\ inflight' = st.inflight
        /\ hist' = st.hist
        /\ last' = IF react = NoReact THEN NoOp ELSE Loaded(Len(hist) + 1, TRUE)
        /\ prevHls' = NoOp
        /\ UNCHANGED <<playlists, fetches, userCalls>>

\* the manager with every operation, on the inputs PlaylistUrls and Texts
Next ==
    \/ \E url \in PlaylistUrls, content \in Texts : processHlsPlaylist(url, content)
    \/ \E url \in PlaylistUrls : loadHlsPlaylist(url)
    \/ \E url \in PlaylistUrls, content \in Texts : fetchResolved(url, content)
    \/ \E url \in PlaylistUrls, error \in FetchErrors : fetchRejected(url, error)
    \/ \E url \in ChunkUrls, cbs \in Callbacks : loadChunk(url, cbs[1], cbs[2])
    \/ \E url \in ChunkUrls : abortChunk(url)
    \/ \E e \in inflight, data \in Datas, react \in Reacts : onFileLoaded(e, data, react)
    \/ \E e \in inflight, error \in Errors, react \in Reacts : onFileError(e, error, react)

Spec == Init /\ [][Next]_vars

\* `last` after a call of a method of the Playlist that processHlsPlaylist returned
Rendered(limit, threw, result) ==
    [op |-> "getLimitedContent", limit |-> limit, threw |-> threw, result |-> result]
Indexed(url, index) == [op |-> "getChunkIndex", url |-> url, index |-> index]
Availed(avail) == [op |-> "limitedContentAvail", avail |-> avail]

\* the user calls getLimitedContent(limit) on the playlist registered for url
getLimitedContentCall(url, limit) ==
    /\ Called
    /\ MapHas(playlists, url)
    /\ last' = IF getLimitedContentThrows(MapGet(playlists, url))
               THEN Rendered(limit, TRUE, <<>>)
               ELSE Rendered(limit, FALSE, getLimitedContent(MapGet(playlists, url), limit))
    /\ prevHls' = NoOp
    /\ UNCHANGED <<playlists, chunk, fetches, inflight, hist>>

\* the user calls getChunkIndex(chunkUrl) on the playlist registered for url
getChunkIndexCall(url, chunkUrl) ==
    /\ Called
    /\ MapHas(playlists, url)
    /\ last' = Indexed(chunkUrl, getChunkIndex(MapGet(playlists, url), chunkUrl))
    /\ prevHls' = NoOp
    /\ UNCHANGED <<playlists, chunk, fetches, inflight, hist>>

\* the user calls limitedContentAvail() on the playlist registered for url
limitedContentAvailCall(url) ==
    /\ Called
    /\ MapHas(playlists, url)
    /\ last' = Availed(limitedContentAvail(MapGet(playlists, url)))
    /\ prevHls' = NoOp
    /\ UNCHANGED <<playlists, chunk, fetches, inflight, hist>>

\* the manager after processHlsPlaylist(HP, content) of a generated text
InitPlaylist ==
    \E content \in GenTexts :
        /\ playlists = processHlsPlaylistSet(<<>>, HP, content)
        /\ chunk = NullChunk
        /\ fetches = NoFetches
        /\ inflight = {}
        /\ hist = <<>>
        /\ last = Processed(HP, content, "")
        /\ prevHls = NoOp
        /\ userCalls = 1

\* the methods of the registered Playlist, and loadHlsPlaylist of its url
NextPlaylist ==
    \/ \E limit \in Limits : getLimitedContentCall(HP, limit)
    \/ \E chunkUrl \in LocateUrls : getChunkIndexCall(HP, chunkUrl)
    \/ limitedContentAvailCall(HP)
    \/ loadHlsPlaylist(HP)
    \/ \E content \in AllTexts : fetchResolved(HP, content)
    \/ \E error \in FetchErrors : fetchRejected(HP, error)

SpecPlaylist == InitPlaylist /\ [][NextPlaylist]_vars

\* the loader emits an event for a file it owes
Deliver ==
    \E e \in inflight, react \in Reacts :
        \/ \E data \in Datas : onFileLoaded(e, data, react)
        \/ \E error \in Errors : onFileError(e, error, react)

\* the manager with a loader that emits, in the end, an event for each file
SpecFair == Spec /\ WF_vars(Deliver)

\* the playlist registry alone, on the inputs AllPlaylistUrls and AllTexts
NextRegistry ==
    \/ \E url \in AllPlaylistUrls, content \in AllTexts : processHlsPlaylist(url, content)
    \/ \E url \in AllPlaylistUrls : loadHlsPlaylist(url)
    \/ \E url \in AllPlaylistUrls, content \in AllTexts : fetchResolved(url, content)
    \/ \E url \in AllPlaylistUrls, error \in FetchErrors : fetchRejected(url, error)

SpecRegistry == Init /\ [][NextRegistry]_vars

------------------------------------------------------------------------------
(* Vocabulary of the properties *)

Sessions == 1..Len(hist)

Min(S) == CHOOSE x \in S : \A y \in S : x <= y

\* the invocation of fn with arg that the event e makes
Invocation(fn, arg, e) == [fn |-> fn, arg |-> arg, by |-> e[1]]

\* session k's callbacks are invoked in this step
Invoked(k) == k \in Sessions /\ hist'[k].cbs # hist[k].cbs

\* no callback is invoked in this step
NoneInvoked == \A k \in Sessions : ~Invoked(k)

------------------------------------------------------------------------------
(* C1 *)

\* C1: after loadChunk(u, ok, err) followed immediately by abortChunk(u), no
\* transport event invokes ok or err, whatever file the load resolved to.
C1_AbortedSessionNeverCalledBack ==
    \A k \in Sessions : hist[k].aborted => hist[k].cbs = <<>>

------------------------------------------------------------------------------
(* C2 *)

\* session k was superseded by call k + 1 before any event for its target
Superseded(k) == k \in Sessions /\ hist[k].quietNext

\* C2, first half: a session superseded before any event for its target is never
\* called back.
C2_SupersededSilent == \A k \in Sessions : Superseded(k) => hist[k].cbs = <<>>

\* C2, second half: while the superseding session is pending, a file-loaded
\* (file-error) event for its target invokes its onSuccess with the event's data
\* (its onError with the event's error).
C2_SupersederCalledBack ==
    \A e \in inflight, react \in Reacts :
        /\ \A data \in Datas :
             ( /\ onFileLoaded(e, data, react)
               /\ chunk # NullChunk /\ Superseded(chunk.id - 1) /\ e[2] = chunk.url )
             => hist'[chunk.id].cbs = <<Invocation("onSuccess", data, e)>>
        /\ \A error \in Errors :
             ( /\ onFileError(e, error, react)
               /\ chunk # NullChunk /\ Superseded(chunk.id - 1) /\ e[2] = chunk.url )
             => hist'[chunk.id].cbs = <<Invocation("onError", error, e)>>

\* C2: after loadChunk(u1, ok1, err1) and then loadChunk(u2, ok2, err2) before any
\* event for u1's target, no event invokes ok1 or err1, and the first event for
\* u2's target while the second session is pending invokes ok2 or err2 with what
\* the event carries.
C2_SupersedingLoad == []C2_SupersededSilent /\ [][C2_SupersederCalledBack]_vars

\* a superseded session saw a late event for its own target and stayed silent,
\* and the session that superseded it was called back
C2_Witness ==
    \E k \in Sessions :
        /\ Superseded(k) /\ hist[k].seen /\ hist[k].cbs = <<>>
        /\ k + 1 \in Sessions
        /\ hist[k + 1].slot.url # hist[k].slot.url
        /\ Len(hist[k + 1].cbs) = 1

------------------------------------------------------------------------------
(* C3 *)

\* C3, the dispatch: an event whose url is the pending session's url invokes that
\* session's callback with what the event carries, and empties the slot.
C3_Dispatch ==
    \A e \in inflight, react \in Reacts :
        /\ \A data \in Datas :
             (onFileLoaded(e, data, react) /\ chunk # NullChunk /\ e[2] = chunk.url)
             => /\ hist'[chunk.id].cbs =
                      Append(hist[chunk.id].cbs, Invocation("onSuccess", data, e))
                /\ chunk' = NullChunk
        /\ \A error \in Errors :
             (onFileError(e, error, react) /\ chunk # NullChunk /\ e[2] = chunk.url)
             => /\ hist'[chunk.id].cbs =
                      Append(hist[chunk.id].cbs, Invocation("onError", error, e))
                /\ chunk' = NullChunk

\* C3, the count: a loadChunk call gets at most one callback invocation in all.
C3_AtMostOnce == \A k \in Sessions : Len(hist[k].cbs) <= 1

\* C3: a matching file-loaded (file-error) event invokes onSuccess (onError) with
\* what it carries and leaves the slot empty, and each loadChunk call is called
\* back at most once.
C3_OneCallbackPerLoad == []C3_AtMostOnce /\ [][C3_Dispatch]_vars

\* a session was called back and the slot is empty
C3_Witness ==
    /\ chunk = NullChunk
    /\ \E k \in Sessions : Len(hist[k].cbs) = 1 /\ hist[k].cbs[1].fn = "onError"

------------------------------------------------------------------------------
(* C4 *)

\* the segments of playlist P from index i (1-based) on, resolved
ResolvedFrom(P, i) ==
    [k \in 1..(Len(P.manifest.segments) - i + 1) |->
        P.baseUrl \o P.manifest.segments[i + k - 1].uri]

\* the session made by the loadChunk that has just returned
Fresh == hist[last.id]

\* C4: loadChunk(P.baseUrl + segments[i].uri) for a registered playlist P hands
\* the loader the segments of P from i on and makes the session for exactly the
\* url asked for, also when another playlist or an earlier segment of P has a
\* URI that ends the url (and then the callback part of the claim is about that
\* session).
C4_OwnSegmentIsLoaded ==
    last.op = "loadChunk" =>
        \A n \in 1..Len(playlists) :
            LET P == playlists[n].value
            IN  \A i \in 1..Len(P.manifest.segments) :
                    Fresh.url = P.baseUrl \o P.manifest.segments[i].uri
                    => /\ Len(Fresh.loads) = 1
                       /\ Fresh.loads[1].files = ResolvedFrom(P, i)
                       /\ Fresh.slot.url = Fresh.url

------------------------------------------------------------------------------
(* C5 *)

\* the segments (1-based) of playlist P whose URI ends url
Located(P, url) ==
    {i \in 1..Len(P.manifest.segments) : EndsWith(url, P.manifest.segments[i].uri)}

\* the places in the registry of the playlists in which url is found
Owners(url) == {n \in 1..Len(playlists) : Located(playlists[n].value, url) # {}}

\* the request the registry lookup of url calls for
Request(url) ==
    IF Owners(url) # {}
    THEN LET P == playlists[Min(Owners(url))].value
         IN  [files |-> ResolvedFrom(P, Min(Located(P, url))), key |-> P.url]
    ELSE [files |-> <<url>>, key |-> url]

\* C5: loadChunk(url) hands the loader one request: the segments from the index
\* found on, in playback order, of the playlist the lookup finds url in, under
\* that playlist's url; or url alone under url when no playlist has it.
C5_LoaderRequest == last.op = "loadChunk" => Fresh.loads = <<Request(Fresh.url)>>

\* a loadChunk found its url at the second segment of a playlist
C5_Witness ==
    /\ last.op = "loadChunk"
    /\ Owners(Fresh.url) # {}
    /\ Min(Located(playlists[Min(Owners(Fresh.url))].value, Fresh.url)) = 2
    /\ Len(Fresh.loads[1].files) = 1

------------------------------------------------------------------------------
(* C6 *)

\* C6, the call: loadChunk does not throw, makes one loader.load call with a
\* file list that is not empty, and returns with the slot pending on files[0].url.
C6_LoadReturns ==
    last.op = "loadChunk" =>
        /\ ~Fresh.threw
        /\ Len(Fresh.loads) = 1
        /\ Fresh.loads[1].files # <<>>
        /\ Fresh.slot # NullChunk
        /\ Fresh.slot.id = last.id
        /\ Fresh.slot.url = Fresh.loads[1].files[1]
        /\ ~last.nested => chunk = Fresh.slot

\* C6, the error: a file-error event invokes nothing but onError, with its
\* error, of the session pending on its url when it arrives.
C6_ErrorToPendingSession ==
    \A e \in inflight, error \in Errors, react \in Reacts :
        onFileError(e, error, react) =>
            \A k \in Sessions :
                Invoked(k) =>
                    /\ chunk # NullChunk /\ chunk.id = k /\ chunk.url = e[2]
                    /\ hist'[k].cbs = Append(hist[k].cbs, Invocation("onError", error, e))

\* C6: loadChunk never fails synchronously, for any url and registry, and a
\* transport error reaches only onError of the session active when it arrives.
C6_NoSynchronousFailure == []C6_LoadReturns /\ [][C6_ErrorToPendingSession]_vars

\* loadChunk has just returned with a playlist of no segments registered first
C6_Witness ==
    /\ last.op = "loadChunk"
    /\ playlists # <<>>
    /\ playlists[1].value.manifest.segments = <<>>
    /\ chunk.url = Fresh.url

------------------------------------------------------------------------------
(* C7 *)

\* the entries stored under the urls other than url are the same after the step
OthersUnchanged(url) ==
    \A u \in AllPlaylistUrls \ {url} :
        /\ MapHas(playlists', u) = MapHas(playlists, u)
        /\ MapHas(playlists, u) => MapGet(playlists', u) = MapGet(playlists, u)

\* the step settles loadHlsPlaylist(url) as rejected with error, leaves no entry
\* for url and leaves the other entries alone
RejectedWith(url, error) ==
    /\ last'.op = "settled" /\ last'.url = url /\ last'.error = error
    /\ ~MapHas(playlists', url)
    /\ OthersUnchanged(url)

\* each way loadHlsPlaylist(url) fails, with the error it fails with
C7_FailedLoadRollsBack ==
    \A url \in AllPlaylistUrls :
        /\ \A error \in FetchErrors : fetchRejected(url, error) => RejectedWith(url, error)
        /\ \A content \in AllTexts :
             /\ (fetchResolved(url, content) /\ ParseThrows(content))
                => RejectedWith(url, "parse error")
             /\ (fetchResolved(url, content) /\ ~ParseThrows(content) /\ PlaylistThrows(url))
                => RejectedWith(url, "Unexpected playlist URL format")

\* C7: when loadHlsPlaylist(url) fails (the fetch rejects, the parser throws, or
\* url has no "/"), the promise rejects with that error, the registry has no
\* entry for url, and the entries under the other urls are unchanged.
C7_FailedLoad == [][C7_FailedLoadRollsBack]_vars

\* a load has just been rejected by the parser while another playlist is stored
C7_Witness ==
    /\ last.op = "settled" /\ last.error = "parse error"
    /\ playlists # <<>>
    /\ ~MapHas(playlists, last.url)

------------------------------------------------------------------------------
(* C8 *)

\* a url that has an entry keeps it in this step
C8_EntryStays == \A u \in AllPlaylistUrls : MapHas(playlists, u) => MapHas(playlists', u)

\* C8: once processHlsPlaylist or loadHlsPlaylist has succeeded for a url, the
\* registry has an entry for it in every later state, whatever operations follow.
C8_RegisteredForGood == [][C8_EntryStays]_vars

------------------------------------------------------------------------------
(* C9 *)

\* the segment URIs a text lists, in order
UriLines(text) ==
    LET lines == SelectSeq(text, LAMBDA line : line[1] = "")
    IN  [i \in 1..Len(lines) |-> lines[i][2]]

HasEndList(text) == \E i \in 1..Len(text) : text[i][1] = "#EXT-X-ENDLIST"

\* the places of url's entries in the registry
EntriesOf(url) == {i \in 1..Len(playlists) : playlists[i].key = url}

\* the playlist a text fetched from url parses to
Alone(url, content) == Playlist(url, Parse(content))

\* C9: a successful loadHlsPlaylist(url) leaves one entry for url, the playlist
\* parsed from the fetched text with all its N segments; it returns, for a text
\* without end-list marker and N >= 1, a document listing the first
\* N - floor(N/2) segments in order, and otherwise the fetched text.
C9_StoresAllReturnsHalf ==
    (last.op = "settled" /\ last.error = "") =>
        LET N == Len(UriLines(last.content))
            stored == MapGet(playlists, last.url)
        IN  /\ Cardinality(EntriesOf(last.url)) = 1
            /\ stored = Alone(last.url, last.content)
            /\ [i \in 1..Len(stored.manifest.segments) |-> stored.manifest.segments[i].uri]
                   = UriLines(last.content)
            /\ IF ~HasEndList(last.content) /\ N >= 1
               THEN /\ last.result = getLimitedContent(stored, N \div 2)
                    /\ UriLines(last.result) = SubSeq(UriLines(last.content), 1, N - (N \div 2))
               ELSE last.result = last.content

\* a load of a live playlist of three segments returned a document of two
C9_Witness ==
    /\ last.op = "settled" /\ last.error = ""
    /\ Len(UriLines(last.content)) = 3
    /\ Len(UriLines(last.result)) = 2
    /\ last.result # last.content

------------------------------------------------------------------------------
(* C10 *)

\* the last two steps settled, successfully, two loadHlsPlaylist calls that were
\* suspended at the same time
TwoInFlightSettled ==
    /\ last.op = "settled" /\ last.error = ""
    /\ prevHls.op = "settled" /\ prevHls.error = ""
    /\ prevHls.others[last.url] > 0

\* C10: of two loadHlsPlaylist calls in flight at once that both succeed, for
\* different urls the registry holds both playlists, each as if loaded alone;
\* for one url the registry holds the playlist of the fetch that resolved last.
C10_LastWriteWins ==
    TwoInFlightSettled =>
        /\ Cardinality(EntriesOf(last.url)) = 1
        /\ MapGet(playlists, last.url) = Alone(last.url, last.content)
        /\ last.url # prevHls.url =>
              /\ Cardinality(EntriesOf(prevHls.url)) = 1
              /\ MapGet(playlists, prevHls.url) = Alone(prevHls.url, prevHls.content)

\* two loads of one url, in flight at once, fetched different texts
C10_Witness ==
    /\ TwoInFlightSettled
    /\ last.url = prevHls.url
    /\ Parse(last.content) # Parse(prevHls.content)

------------------------------------------------------------------------------
(* C11 *)

HasSlash(url) == \E n \in 1..Len(url) : url[n] = "/"

\* base is url up to and including its last "/"
IsBaseOf(base, url) ==
    \E n \in 1..Len(url) :
        /\ url[n] = "/"
        /\ \A j \in (n + 1)..Len(url) : url[j] # "/"
        /\ base = SubSeq(url, 1, n)

\* C11, the base: every playlist in the registry has as baseUrl its url up to and
\* including the last "/".
C11_BaseUrl ==
    \A n \in 1..Len(playlists) :
        /\ playlists[n].value.url = playlists[n].key
        /\ IsBaseOf(playlists[n].value.baseUrl, playlists[n].key)

\* C11, the failure: processHlsPlaylist of a url without "/" throws and leaves
\* the registry as it was.
C11_NoSlashFails ==
    \A url \in AllPlaylistUrls, content \in AllTexts :
        (processHlsPlaylist(url, content) /\ ~HasSlash(url))
        => /\ last'.error # ""
           /\ playlists' = playlists

\* C11: a Playlist made for a url with a "/" has as baseUrl the url up to and
\* including its last "/"; processHlsPlaylist of a url with no "/" fails
\* synchronously and leaves the registry unchanged.
C11_PlaylistUrl == []C11_BaseUrl /\ [][C11_NoSlashFails]_vars

\* processHlsPlaylist has just thrown on a url without "/" while a playlist whose
\* url has two "/" is registered
C11_Witness ==
    /\ last.op = "processHlsPlaylist"
    /\ ~HasSlash(last.url)
    /\ last.error = "Unexpected playlist URL format"
    /\ MapHas(playlists, GDP)

------------------------------------------------------------------------------
(* C12 *)

\* session k has its disposition: it was aborted or superseded, or it was called
\* back once
Disposed(k) ==
    /\ k \in Sessions
    /\ \/ hist[k].dropped # ""
       \/ Len(hist[k].cbs) = 1

\* C12: with a loader that delivers one event for each file of each load call,
\* every session made by loadChunk that is neither aborted by a matching
\* abortChunk nor superseded by a later loadChunk is in the end called back once.
C12_EveryRequestDisposed == \A k \in 1..(MaxLoads + 1) : (k \in Sessions) ~> Disposed(k)

------------------------------------------------------------------------------
(* C13 *)

\* the event e is for the url of the pending session
Matches(e) == chunk # NullChunk /\ chunk.url = e[2]

\* the step is a loadChunk call of the user
IsLoadChunk == \E url \in ChunkUrls, cbs \in Callbacks : loadChunk(url, cbs[1], cbs[2])

\* the step delivers an event for the url of the pending session
IsMatchingEvent ==
    \E e \in inflight, react \in Reacts :
        /\ Matches(e)
        /\ \/ \E data \in Datas : onFileLoaded(e, data, react)
           \/ \E error \in Errors : onFileError(e, error, react)

\* C13, the transitions: the slot changes only from Empty to Pending by
\* loadChunk, from Pending to Empty by a matching event or a matching abortChunk,
\* and from Pending to a new Pending by loadChunk.
C13_Transitions ==
    chunk' # chunk =>
        \/ chunk = NullChunk /\ chunk' # NullChunk /\ IsLoadChunk
        \/ chunk # NullChunk /\ chunk' # NullChunk /\ IsLoadChunk
        \/ chunk # NullChunk /\ chunk' = NullChunk
              /\ (IsMatchingEvent \/ abortChunk(chunk.url))

\* C13, the frame: an event that does not match, and an abortChunk of another
\* url, leave the slot alone and invoke nothing; abortChunk invokes no callback
\* and makes no call of the loader.
C13_Frame ==
    /\ \A e \in inflight, react \in Reacts :
          ( /\ ~Matches(e)
            /\ \/ \E data \in Datas : onFileLoaded(e, data, react)
               \/ \E error \in Errors : onFileError(e, error, react) )
          => chunk' = chunk /\ NoneInvoked /\ Len(hist') = Len(hist)
    /\ \A url \in ChunkUrls :
          abortChunk(url)
          => /\ NoneInvoked
             /\ inflight' = inflight
             /\ Len(hist') = Len(hist)
             /\ ~chunkMatches(chunk, url) => chunk' = chunk

\* C13: the session slot changes only by the listed transitions; events that do
\* not match the pending session and abortChunk of another url change nothing
\* and invoke nothing; abortChunk never invokes a callback or calls the loader.
C13_SlotTransitions == [][C13_Transitions /\ C13_Frame]_vars

\* a session was aborted, the event for its url came to the empty slot, and no
\* callback was invoked
C13_Witness ==
    /\ chunk = NullChunk
    /\ \E k \in Sessions :
          /\ hist[k].dropped = "aborted" /\ hist[k].seen /\ hist[k].cbs = <<>>
          /\ \A j \in Sessions : hist[j].cbs = <<>>

------------------------------------------------------------------------------
(* C14 *)

\* the playlist whose method was called
Called_P == MapGet(playlists, HP)

\* a manifest without end-list marker and with a segment
IsLive(m) == ~m.endList /\ Len(m.segments) >= 1

\* the optional header tags of manifest m, each when its field is truthy
ExpectedTags(m) ==
    (IF m.playlistType # "" THEN << <<"#EXT-X-PLAYLIST-TYPE:", m.playlistType>> >> ELSE <<>>)
    \o (IF m.targetDuration # 0
        THEN << <<"#EXT-X-TARGETDURATION:", m.targetDuration>> >> ELSE <<>>)
    \o (IF m.mediaSequence # 0
        THEN << <<"#EXT-X-MEDIA-SEQUENCE:", m.mediaSequence>> >> ELSE <<>>)
    \o (IF m.discontinuitySequence # 0
        THEN << <<"#EXT-X-DISCONTINUITY-SEQUENCE:", m.discontinuitySequence>> >> ELSE <<>>)

\* the (EXTINF line, URI line) pairs of the first n segments of m
ExpectedPairs(m, n) ==
    [j \in 1..(2 * n) |->
        IF j % 2 = 1
        THEN <<"#EXTINF:", m.segments[(j + 1) \div 2].duration>>
        ELSE <<"", m.segments[j \div 2].uri>>]

\* C14: for a live manifest of N >= 1 segments and 0 <= k <= N,
\* getLimitedContent(k) is the two-line header, each optional tag iff its field
\* is truthy, then the pairs of segments 0..N-k-1 in order, and no end-list
\* marker.
C14_LimitedContent ==
    LET m == Called_P.manifest
        N == Len(m.segments)
    IN  (last.op = "getLimitedContent" /\ IsLive(m) /\ last.limit <= N) =>
            /\ ~last.threw
            /\ last.result = << <<"#EXTM3U", "">>, <<"#EXT-X-VERSION:3", "">> >>
                             \o ExpectedTags(m) \o ExpectedPairs(m, N - last.limit)
            /\ ~HasEndList(last.result)
            /\ Len(UriLines(last.result)) = N - last.limit

\* getLimitedContent(1) of a live manifest of three segments, with a playlist
\* type and without media sequence
C14_Witness ==
    /\ last.op = "getLimitedContent" /\ ~last.threw /\ last.limit = 1
    /\ Len(Called_P.manifest.segments) = 3
    /\ Called_P.manifest.playlistType # ""
    /\ Called_P.manifest.mediaSequence = 0
    /\ Len(UriLines(last.result)) = 2

------------------------------------------------------------------------------
(* C15 *)

\* C15: limitedContentAvail() is true iff the manifest has no end-list marker
\* and has a segment; getLimitedContent(k) throws, for every k, exactly when it
\* is false, and then yields no document; loadHlsPlaylist never fails with the
\* error getLimitedContent throws.
C15_LimitedContentGuard ==
    /\ last.op = "limitedContentAvail" => last.avail = IsLive(Called_P.manifest)
    /\ last.op = "getLimitedContent" =>
          /\ last.threw = ~IsLive(Called_P.manifest)
          /\ last.threw => last.result = <<>>
          /\ ~last.threw => last.result # <<>>
    /\ last.op = "settled" =>
          last.error # "Limited content allowed only for Live playlist with segments"

\* getLimitedContent has just thrown on a manifest with segments and an end-list
\* marker
C15_Witness ==
    /\ last.op = "getLimitedContent" /\ last.threw
    /\ Len(Called_P.manifest.segments) >= 1
    /\ Called_P.manifest.endList

------------------------------------------------------------------------------
(* C16 *)

\* C16: getChunkIndex(url) is the lowest index of a segment whose uri is a suffix
\* of url, and -1 iff there is none.
C16_LowestSuffixIndex ==
    last.op = "getChunkIndex" =>
        IF Located(Called_P, last.url) = {}
        THEN last.index = -1
        ELSE last.index = Min(Located(Called_P, last.url)) - 1

\* two segments' URIs are suffixes of the url and the earlier one, which is not
\* the first segment, was returned
C16_Witness ==
    /\ last.op = "getChunkIndex"
    /\ Cardinality(Located(Called_P, last.url)) = 2
    /\ last.index = 1

------------------------------------------------------------------------------
(* C17 *)

\* the orders in which n playlists can have been registered
Orders(n) == {f \in [1..n -> 1..n] : \A i, j \in 1..n : f[i] = f[j] => i = j}

\* the registry with the same playlists registered in the order f
Reordered(f) == [i \in 1..Len(playlists) |-> playlists[f[i]]]

\* url is the url of a segment of a registered playlist
IsSegmentUrl(url) ==
    \E n \in 1..Len(playlists) :
        \E i \in 1..Len(playlists[n].value.manifest.segments) :
            url = playlists[n].value.baseUrl \o playlists[n].value.manifest.segments[i].uri

\* C17: for a segment url, the file list and the key loadChunk hands the loader
\* are the same whatever the order in which the playlists were registered.
C17_OrderIrrelevant ==
    (last.op = "loadChunk" /\ IsSegmentUrl(Fresh.url)) =>
        \A f \in Orders(Len(playlists)) :
            Fresh.loads = << [files |-> loadChunkFiles(Reordered(f), Fresh.url),
                              key |-> loadChunkKey(Reordered(f), Fresh.url)] >>

------------------------------------------------------------------------------
(* C18 *)

\* C18: when a callback calls loadChunk(u2, ok2, err2) during dispatch, the slot
\* is, once the event handler has returned, pending on u2's target with
\* (ok2, err2).
C18_ReentrantLoadKept ==
    (last.op = "loadChunk" /\ last.nested) =>
        /\ chunk # NullChunk
        /\ chunk = Fresh.slot

------------------------------------------------------------------------------
(* C19 *)

\* C19: a session's callback is invoked only by an event of the loader.load call
\* that its own loadChunk made.
C19_OwnEventsOnly ==
    \A k \in Sessions :
        \A i \in 1..Len(hist[k].cbs) : hist[k].cbs[i].by = k

------------------------------------------------------------------------------
(* C20 *)

\* the step is an operation on chunks: loadChunk, abortChunk or an event
IsChunkStep == IsLoadChunk \/ (\E url \in ChunkUrls : abortChunk(url)) \/ Deliver

\* the step is an operation on playlists: processHlsPlaylist, or loadHlsPlaylist
\* up to its await, or the rest of it when the fetch resolves or rejects
IsPlaylistStep ==
    \E url \in PlaylistUrls :
        \/ \E content \in Texts : processHlsPlaylist(url, content)
        \/ loadHlsPlaylist(url)
        \/ \E content \in Texts : fetchResolved(url, content)
        \/ \E error \in FetchErrors : fetchRejected(url, error)

C20_Step ==
    /\ IsChunkStep => playlists' = playlists
    /\ IsPlaylistStep =>
          /\ chunk' = chunk
          /\ NoneInvoked
          /\ hist' = hist
          /\ inflight' = inflight

\* C20: loadChunk, abortChunk and the event handlers never change the registry;
\* processHlsPlaylist and loadHlsPlaylist, succeeding or failing, never change
\* the session slot and never invoke a chunk callback.
C20_RegistryAndSlotIndependent == [][C20_Step]_vars

\* the playlist the pending session was resolved from has just been registered
\* again
C20_Witness ==
    /\ last.op = "processHlsPlaylist" /\ last.error = ""
    /\ chunk # NullChunk
    /\ hist[chunk.id].loads[1].key = last.url
    /\ getChunkIndex(MapGet(playlists, last.url), chunk.url) = -1

====
